---- MODULE Spec2Model ----
(***************************************************************************)
(* Piotroski F-Score engine (src/src/fscore.py).                           *)
(*                                                                         *)
(* A statement table (pandas DataFrame) is a record                        *)
(*    columns : the period identifiers, in the order the table lists them  *)
(*    index   : the set of row labels (line items)                         *)
(*    values  : the cell of every (label, period) of index x columns       *)
(* A lookup table.loc[label, period] raises KeyError when the label is not *)
(* a row or the period is not a column.  Period identifiers are modelled   *)
(* as the integers 1..MaxPeriod under their natural order; cell values are *)
(* integers, and a ratio a / b is kept exact as a fraction (num, den).     *)
(*                                                                         *)
(* The script's ticker loop (the __main__ block) adds                      *)
(*    tickers   : the tickers found, in the order of the loop              *)
(*    directory : for each of them, its three statement files              *)
(*    processed : the number of tickers the loop has gone through          *)
(*    results   : the results list                                         *)
(*    pc        : "import" (functions called from outside, no loop),       *)
(*                "loop", "summary" or "aborted" (uncaught exception)      *)
(***************************************************************************)
EXTENDS Integers, Sequences, FiniteSets, TLC

VARIABLES financials, balance_sheet, cash_flow, call, args, raised, ret, evaluated,
          tickers, directory, processed, results, pc

vars ==
    <<financials, balance_sheet, cash_flow, call, args, raised, ret, evaluated,
      tickers, directory, processed, results, pc>>

batch == <<tickers, directory, processed, results, pc>>

tables == <<financials, balance_sheet, cash_flow>>

\* ------------------------------------------------------------------ bounds
MaxPeriod == 3

MaxVal == 2

Periods == 1..MaxPeriod

Values == (0 - 1)..MaxVal

\* ------------------------------------------------------------- row labels
NetIncome == "Net Income"

TotalRevenue == "Total Revenue"

CostOfRevenue == "Cost Of Revenue"

TotalAssets == "Total Assets"

LongTermDebt == "Long Term Debt"

CurrentAssets == "Total Current Assets"

CurrentLiabilities == "Total Current Liabilities"

SharesOutstanding == "Shares Outstanding"

OperatingCashFlow == "Total Cash From Operating Activities"

INCOME_STATEMENT_ROW_MAP == {NetIncome, TotalRevenue, CostOfRevenue}

BALANCE_SHEET_ROW_MAP ==
    {TotalAssets, LongTermDebt, CurrentAssets, CurrentLiabilities, SharesOutstanding}

CASH_FLOW_ROW_MAP == {OperatingCashFlow}

\* ----------------------------------------------------------------- tables
Range(s) == {s[i] : i \in 1..Len(s)}

\* DataFrame.loc[label, period] succeeds (no KeyError)
HasKey(t, label, period) == label \in t.index /\ period \in Range(t.columns)

\* DataFrame.loc[label, period], when it succeeds
loc(t, label, period) == t.values[<<label, period>>]

\* ------------------------------------------------------------- arithmetic
\* a zero denominator replaced by 1 instead of the whole ratio by 0
RatioDefaultsDenominator(n, d) == [num |-> n, den |-> IF d # 0 THEN d ELSE 1]

\* `n / d if d else 0`
Ratio(n, d) == IF d # 0 THEN [num |-> n, den |-> d] ELSE [num |-> 0, den |-> 1]

IntRatio(n) == [num |-> n, den |-> 1]

\* a < b for two fractions with non-zero denominators
Less(a, b) ==
    IF a.den * b.den > 0
    THEN a.num * b.den < b.num * a.den
    ELSE a.num * b.den > b.num * a.den

Greater(a, b) == Less(b, a)

\* ------------------------------------------------------- get_common_periods
SetMax(S) == CHOOSE x \in S : \A y \in S : y <= x

\* sorted(S): the reverse flag forgotten
SetMin(S) == CHOOSE x \in S : \A y \in S : x <= y

RECURSIVE SortedAsc(_)
SortedAsc(S) ==
    IF S = {} THEN <<>>
    ELSE <<SetMin(S)>> \o SortedAsc(S \ {SetMin(S)})

\* sorted(S, reverse=True)
RECURSIVE SortedDesc(_)
SortedDesc(S) ==
    IF S = {} THEN <<>>
    ELSE <<SetMax(S)>> \o SortedDesc(S \ {SetMax(S)})

\* the common periods in the order the income statement lists them, unsorted
get_common_periods_unsorted(fin, bs, cf) ==
    LET common == Range(fin.columns) \cap Range(bs.columns) \cap Range(cf.columns)
        Keep(x) == x \in common
    IN SelectSeq(fin.columns, Keep)

get_common_periods(fin, bs, cf) ==
    LET periods_fin == Range(fin.columns)
        periods_bs == Range(bs.columns)
        periods_cf == Range(cf.columns)
        common == periods_fin \cap periods_bs \cap periods_cf
    IN SortedDesc(common)

\* ---------------------------------------------------------------- criteria
criterion_1(fin, bs, curr, prev) ==
    IF ~(HasKey(fin, NetIncome, curr) /\ HasKey(bs, TotalAssets, curr))
    THEN 0
    ELSE LET net_income == loc(fin, NetIncome, curr)
             total_assets == loc(bs, TotalAssets, curr)
             roa == Ratio(net_income, total_assets)
         IN IF Greater(roa, IntRatio(0)) THEN 1 ELSE 0

criterion_2(cf, curr) ==
    IF ~HasKey(cf, OperatingCashFlow, curr)
    THEN 0
    ELSE LET ocf == loc(cf, OperatingCashFlow, curr)
         IN IF ocf > 0 THEN 1 ELSE 0

criterion_3(fin, bs, curr, prev) ==
    IF ~(/\ HasKey(fin, NetIncome, curr)
         /\ HasKey(bs, TotalAssets, curr)
         /\ HasKey(fin, NetIncome, prev)
         /\ HasKey(bs, TotalAssets, prev))
    THEN 0
    ELSE LET roa_curr == Ratio(loc(fin, NetIncome, curr), loc(bs, TotalAssets, curr))
             roa_prev == Ratio(loc(fin, NetIncome, prev), loc(bs, TotalAssets, prev))
         IN IF Greater(roa_curr, roa_prev) THEN 1 ELSE 0

criterion_4(fin, cf, curr) ==
    IF ~(HasKey(fin, NetIncome, curr) /\ HasKey(cf, OperatingCashFlow, curr))
    THEN 0
    ELSE LET net_income == loc(fin, NetIncome, curr)
             ocf == loc(cf, OperatingCashFlow, curr)
         IN IF ocf > net_income THEN 1 ELSE 0

\* `<=` in place of `<`
criterion_5_not_strict(bs, curr, prev) ==
    IF ~(/\ HasKey(bs, LongTermDebt, curr)
         /\ HasKey(bs, TotalAssets, curr)
         /\ HasKey(bs, LongTermDebt, prev)
         /\ HasKey(bs, TotalAssets, prev))
    THEN 0
    ELSE LET leverage_curr == Ratio(loc(bs, LongTermDebt, curr), loc(bs, TotalAssets, curr))
             leverage_prev == Ratio(loc(bs, LongTermDebt, prev), loc(bs, TotalAssets, prev))
         IN IF ~Less(leverage_prev, leverage_curr) THEN 1 ELSE 0

\* a zero Total Assets handled like an absent one: the criterion fails
criterion_5_zero_as_missing(bs, curr, prev) ==
    IF ~(/\ HasKey(bs, LongTermDebt, curr)
         /\ HasKey(bs, TotalAssets, curr)
         /\ HasKey(bs, LongTermDebt, prev)
         /\ HasKey(bs, TotalAssets, prev))
    THEN 0
    ELSE IF loc(bs, TotalAssets, curr) = 0 \/ loc(bs, TotalAssets, prev) = 0
    THEN 0
    ELSE LET leverage_curr == Ratio(loc(bs, LongTermDebt, curr), loc(bs, TotalAssets, curr))
             leverage_prev == Ratio(loc(bs, LongTermDebt, prev), loc(bs, TotalAssets, prev))
         IN IF Less(leverage_curr, leverage_prev) THEN 1 ELSE 0

criterion_5(bs, curr, prev) ==
    IF ~(/\ HasKey(bs, LongTermDebt, curr)
         /\ HasKey(bs, TotalAssets, curr)
         /\ HasKey(bs, LongTermDebt, prev)
         /\ HasKey(bs, TotalAssets, prev))
    THEN 0
    ELSE LET leverage_curr == Ratio(loc(bs, LongTermDebt, curr), loc(bs, TotalAssets, curr))
             leverage_prev == Ratio(loc(bs, LongTermDebt, prev), loc(bs, TotalAssets, prev))
         IN IF Less(leverage_curr, leverage_prev) THEN 1 ELSE 0

criterion_6(bs, curr, prev) ==
    IF ~(/\ HasKey(bs, CurrentAssets, curr)
         /\ HasKey(bs, CurrentLiabilities, curr)
         /\ HasKey(bs, CurrentAssets, prev)
         /\ HasKey(bs, CurrentLiabilities, prev))
    THEN 0
    ELSE LET ratio_curr == Ratio(loc(bs, CurrentAssets, curr), loc(bs, CurrentLiabilities, curr))
             ratio_prev == Ratio(loc(bs, CurrentAssets, prev), loc(bs, CurrentLiabilities, prev))
         IN IF Greater(ratio_curr, ratio_prev) THEN 1 ELSE 0

\* the same fallback as the other eight criteria
criterion_7_fallback_0(bs, curr, prev) ==
    IF ~(HasKey(bs, SharesOutstanding, curr) /\ HasKey(bs, SharesOutstanding, prev))
    THEN 0
    ELSE LET shares_curr == loc(bs, SharesOutstanding, curr)
             shares_prev == loc(bs, SharesOutstanding, prev)
         IN IF shares_curr <= shares_prev THEN 1 ELSE 0

\* the comparison turned round: 1 when the share count did not fall
criterion_7_reversed(bs, curr, prev) ==
    IF ~(HasKey(bs, SharesOutstanding, curr) /\ HasKey(bs, SharesOutstanding, prev))
    THEN 1
    ELSE LET shares_curr == loc(bs, SharesOutstanding, curr)
             shares_prev == loc(bs, SharesOutstanding, prev)
         IN IF shares_curr >= shares_prev THEN 1 ELSE 0

criterion_7(bs, curr, prev) ==
    IF ~(HasKey(bs, SharesOutstanding, curr) /\ HasKey(bs, SharesOutstanding, prev))
    THEN 1
    ELSE LET shares_curr == loc(bs, SharesOutstanding, curr)
             shares_prev == loc(bs, SharesOutstanding, prev)
         IN IF shares_curr <= shares_prev THEN 1 ELSE 0

criterion_8(fin, curr, prev) ==
    IF ~(/\ HasKey(fin, TotalRevenue, curr)
         /\ HasKey(fin, CostOfRevenue, curr)
         /\ HasKey(fin, TotalRevenue, prev)
         /\ HasKey(fin, CostOfRevenue, prev))
    THEN 0
    ELSE LET revenue_curr == loc(fin, TotalRevenue, curr)
             cogs_curr == loc(fin, CostOfRevenue, curr)
             revenue_prev == loc(fin, TotalRevenue, prev)
             cogs_prev == loc(fin, CostOfRevenue, prev)
             gm_curr == Ratio(revenue_curr - cogs_curr, revenue_curr)
             gm_prev == Ratio(revenue_prev - cogs_prev, revenue_prev)
         IN IF Greater(gm_curr, gm_prev) THEN 1 ELSE 0

criterion_9(fin, bs, curr, prev) ==
    IF ~(/\ HasKey(fin, TotalRevenue, curr)
         /\ HasKey(fin, TotalRevenue, prev)
         /\ HasKey(bs, TotalAssets, curr)
         /\ HasKey(bs, TotalAssets, prev))
    THEN 0
    ELSE LET turnover_curr == Ratio(loc(fin, TotalRevenue, curr), loc(bs, TotalAssets, curr))
             turnover_prev == Ratio(loc(fin, TotalRevenue, prev), loc(bs, TotalAssets, prev))
         IN IF Greater(turnover_curr, turnover_prev) THEN 1 ELSE 0

\* ------------------------------------------------ compute_piotroski_fscore
\* len(scores) in place of the sum
SumValuesCounts(f) == Cardinality(DOMAIN f)

\* sum(scores.values())
RECURSIVE SumValues(_)
SumValues(f) ==
    IF DOMAIN f = {} THEN 0
    ELSE LET k == CHOOSE x \in DOMAIN f : TRUE
         IN f[k] + SumValues([x \in DOMAIN f \ {k} |-> f[x]])

\* lines 175-189: the nine criteria on (curr, prev), their sum and the period pair
score_periods(fin, bs, cf, curr, prev) ==
    LET scores == [criterion_1 |-> criterion_1(fin, bs, curr, prev),
                   criterion_2 |-> criterion_2(cf, curr),
                   criterion_3 |-> criterion_3(fin, bs, curr, prev),
                   criterion_4 |-> criterion_4(fin, cf, curr),
                   criterion_5 |-> criterion_5(bs, curr, prev),
                   criterion_6 |-> criterion_6(bs, curr, prev),
                   criterion_7 |-> criterion_7(bs, curr, prev),
                   criterion_8 |-> criterion_8(fin, curr, prev),
                   criterion_9 |-> criterion_9(fin, bs, curr, prev)]
        total == SumValues(scores)
    IN scores @@ [Total_FScore |-> total, Period |-> <<curr, prev>>]

\* the period check written `< 1`: one common period passes it and the read of
\* common_periods[1] fails with IndexError
compute_accepts_one_period(fin, bs, cf) ==
    LET common_periods == get_common_periods(fin, bs, cf)
    IN IF Len(common_periods) < 1
       THEN [raised |-> "ValueError", ret |-> <<>>, evaluated |-> {}]
       ELSE IF Len(common_periods) < 2
       THEN [raised |-> "IndexError", ret |-> <<>>, evaluated |-> {}]
       ELSE [raised |-> "none",
             ret |-> <<score_periods(fin, bs, cf, common_periods[1], common_periods[2])>>,
             evaluated |-> 1..9]

\* the outcome of one call: the exception raised ("none" when it returns), the
\* returned value wrapped in a sequence (<<>> when nothing is returned) and the
\* criteria that were evaluated on the way
compute_piotroski_fscore(fin, bs, cf) ==
    LET common_periods == get_common_periods(fin, bs, cf)
    IN IF Len(common_periods) < 2
       THEN [raised |-> "ValueError", ret |-> <<>>, evaluated |-> {}]
       ELSE LET curr == common_periods[1]
                prev == common_periods[2]
            IN [raised |-> "none",
                ret |-> <<score_periods(fin, bs, cf, curr, prev)>>,
                evaluated |-> 1..9]

\* ------------------------------------------------------------------ inputs
\* the table with columns cols and rows idx whose cells are those of V, a
\* function of <<label, period>>
Table(cols, idx, V) ==
    [columns |-> cols,
     index |-> idx,
     values |-> [c \in idx \X Range(cols) |-> V[c]]]

Labels == INCOME_STATEMENT_ROW_MAP \cup BALANCE_SHEET_ROW_MAP \cup CASH_FLOW_ROW_MAP

\* every ordering of every subset of S
DistinctSeqs(S) ==
    {s \in UNION {[1..k -> S] : k \in 0..Cardinality(S)} :
        \A i, j \in DOMAIN s : i # j => s[i] # s[j]}

AllDesc == SortedDesc(Periods)

Recent == <<MaxPeriod, MaxPeriod - 1>>

\* the cells criterion k looks up
Reads(k, curr, prev) ==
    CASE k = 1 -> {<<NetIncome, curr>>, <<TotalAssets, curr>>}
      [] k = 2 -> {<<OperatingCashFlow, curr>>}
      [] k = 3 -> {<<NetIncome, curr>>, <<TotalAssets, curr>>,
                   <<NetIncome, prev>>, <<TotalAssets, prev>>}
      [] k = 4 -> {<<NetIncome, curr>>, <<OperatingCashFlow, curr>>}
      [] k = 5 -> {<<LongTermDebt, curr>>, <<TotalAssets, curr>>,
                   <<LongTermDebt, prev>>, <<TotalAssets, prev>>}
      [] k = 6 -> {<<CurrentAssets, curr>>, <<CurrentLiabilities, curr>>,
                   <<CurrentAssets, prev>>, <<CurrentLiabilities, prev>>}
      [] k = 7 -> {<<SharesOutstanding, curr>>, <<SharesOutstanding, prev>>}
      [] k = 8 -> {<<TotalRevenue, curr>>, <<CostOfRevenue, curr>>,
                   <<TotalRevenue, prev>>, <<CostOfRevenue, prev>>}
      [] k = 9 -> {<<TotalRevenue, curr>>, <<TotalRevenue, prev>>,
                   <<TotalAssets, curr>>, <<TotalAssets, prev>>}

\* a company improving on every criterion from each period to the next
FavourableVal(label, period) ==
    CASE label = NetIncome -> period
      [] label = TotalRevenue -> period + 1
      [] label = CostOfRevenue -> 1
      [] label = TotalAssets -> 2
      [] label = LongTermDebt -> MaxPeriod + 1 - period
      [] label = CurrentAssets -> period
      [] label = CurrentLiabilities -> 1
      [] label = SharesOutstanding -> MaxPeriod + 1 - period
      [] label = OperatingCashFlow -> period + 1

Favourable == [c \in Labels \X Periods |-> FavourableVal(c[1], c[2])]

\* the reference scenario: current = MaxPeriod, previous = MaxPeriod - 1
ReferenceVal(label, period) ==
    LET now == period = MaxPeriod
    IN CASE label = NetIncome -> IF now THEN 100 ELSE 80
         [] label = TotalRevenue -> IF now THEN 1000 ELSE 900
         [] label = CostOfRevenue -> IF now THEN 600 ELSE 550
         [] label = TotalAssets -> IF now THEN 5000 ELSE 4800
         [] label = LongTermDebt -> IF now THEN 1000 ELSE 1100
         [] label = CurrentAssets -> IF now THEN 1500 ELSE 1400
         [] label = CurrentLiabilities -> IF now THEN 800 ELSE 850
         [] label = SharesOutstanding -> IF now THEN 200 ELSE 210
         [] label = OperatingCashFlow -> IF now THEN 120 ELSE 100

Reference == [c \in Labels \X Periods |-> ReferenceVal(c[1], c[2])]

ReferenceInput ==
    [fin |-> Table(Recent, INCOME_STATEMENT_ROW_MAP, Reference),
     bs |-> Table(Recent, BALANCE_SHEET_ROW_MAP, Reference),
     cf |-> Table(Recent, CASH_FLOW_ROW_MAP, Reference)]

\* every combination of present and absent rows; the balance sheet lists either
\* every period or only the two most recent
PresenceInputs ==
    {[fin |-> Table(AllDesc, fi, Favourable),
      bs |-> Table(bc, bi, Favourable),
      cf |-> Table(AllDesc, ci, Favourable)] :
        fi \in SUBSET INCOME_STATEMENT_ROW_MAP,
        bi \in SUBSET BALANCE_SHEET_ROW_MAP,
        ci \in SUBSET CASH_FLOW_ROW_MAP,
        bc \in {AllDesc, Recent}}

\* for each criterion, every assignment of Values to the cells it looks up in
\* the two most recent periods (every other cell is 1)
Overlay(v) == [c \in Labels \X Periods |-> IF c \in DOMAIN v THEN v[c] ELSE 1]

ValueInputs ==
    UNION {
      {[fin |-> Table(Recent, INCOME_STATEMENT_ROW_MAP, Overlay(v)),
        bs |-> Table(Recent, BALANCE_SHEET_ROW_MAP, Overlay(v)),
        cf |-> Table(Recent, CASH_FLOW_ROW_MAP, Overlay(v))] :
          v \in [Reads(k, MaxPeriod, MaxPeriod - 1) -> Values]} :
      k \in 1..9}

\* every choice of the periods each table lists: the income statement in every
\* column order, the balance sheet oldest first, the cash flow newest first
AlignInputs ==
    {[fin |-> Table(fc, INCOME_STATEMENT_ROW_MAP, Favourable),
      bs |-> Table(SortedAsc(bp), BALANCE_SHEET_ROW_MAP, Favourable),
      cf |-> Table(SortedDesc(cp), CASH_FLOW_ROW_MAP, Favourable)] :
        fc \in DistinctSeqs(Periods),
        bp \in SUBSET Periods,
        cp \in SUBSET Periods}

\* ----------------------------------------------------------- state machine
Idle ==
    /\ call = "none"
    /\ args = <<>>
    /\ raised = "none"
    /\ ret = <<>>
    /\ evaluated = {}

\* the module imported, its __main__ block not run
Imported ==
    /\ tickers = <<>>
    /\ directory = <<>>
    /\ processed = 0
    /\ results = <<>>
    /\ pc = "import"

InitWith(inputs) ==
    /\ \E in \in inputs :
        /\ financials = in.fin
        /\ balance_sheet = in.bs
        /\ cash_flow = in.cf
    /\ Idle
    /\ Imported

Init == InitWith(PresenceInputs \cup ValueInputs \cup {ReferenceInput})

InitAlign == InitWith(AlignInputs)

\* a criterion called on its own: it returns value and raises nothing
Returns(name, k, a, value) ==
    /\ call = "none"
    /\ call' = name
    /\ args' = a
    /\ raised' = "none"
    /\ ret' = <<value>>
    /\ evaluated' = {k}
    /\ UNCHANGED tables
    /\ UNCHANGED batch

Call_get_common_periods ==
    /\ call = "none"
    /\ call' = "get_common_periods"
    /\ args' = <<>>
    /\ raised' = "none"
    /\ ret' = <<get_common_periods(financials, balance_sheet, cash_flow)>>
    /\ evaluated' = {}
    /\ UNCHANGED tables
    /\ UNCHANGED batch

Call_criterion_1 ==
    \E curr, prev \in Periods :
        Returns("criterion_1", 1, <<curr, prev>>,
                criterion_1(financials, balance_sheet, curr, prev))

Call_criterion_2 ==
    \E curr \in Periods :
        Returns("criterion_2", 2, <<curr>>, criterion_2(cash_flow, curr))

Call_criterion_3 ==
    \E curr, prev \in Periods :
        Returns("criterion_3", 3, <<curr, prev>>,
                criterion_3(financials, balance_sheet, curr, prev))

Call_criterion_4 ==
    \E curr \in Periods :
        Returns("criterion_4", 4, <<curr>>, criterion_4(financials, cash_flow, curr))

Call_criterion_5 ==
    \E curr, prev \in Periods :
        Returns("criterion_5", 5, <<curr, prev>>, criterion_5(balance_sheet, curr, prev))

Call_criterion_6 ==
    \E curr, prev \in Periods :
        Returns("criterion_6", 6, <<curr, prev>>, criterion_6(balance_sheet, curr, prev))

Call_criterion_7 ==
    \E curr, prev \in Periods :
        Returns("criterion_7", 7, <<curr, prev>>, criterion_7(balance_sheet, curr, prev))

Call_criterion_8 ==
    \E curr, prev \in Periods :
        Returns("criterion_8", 8, <<curr, prev>>, criterion_8(financials, curr, prev))

Call_criterion_9 ==
    \E curr, prev \in Periods :
        Returns("criterion_9", 9, <<curr, prev>>,
                criterion_9(financials, balance_sheet, curr, prev))

Call_compute_piotroski_fscore ==
    LET out == compute_piotroski_fscore(financials, balance_sheet, cash_flow)
    IN /\ call = "none"
       /\ call' = "compute_piotroski_fscore"
       /\ args' = <<>>
       /\ raised' = out.raised
       /\ ret' = out.ret
       /\ evaluated' = out.evaluated
       /\ UNCHANGED tables
       /\ UNCHANGED batch

Next ==
    \/ Call_get_common_periods
    \/ Call_criterion_1
    \/ Call_criterion_2
    \/ Call_criterion_3
    \/ Call_criterion_4
    \/ Call_criterion_5
    \/ Call_criterion_6
    \/ Call_criterion_7
    \/ Call_criterion_8
    \/ Call_criterion_9
    \/ Call_compute_piotroski_fscore

NextAlign ==
    \/ Call_get_common_periods
    \/ Call_compute_piotroski_fscore

\* the criteria and the aggregator, over row presence and cell values
Spec == Init /\ [][Next]_vars

\* period alignment, over the columns each table lists
SpecAlign == InitAlign /\ [][NextAlign]_vars

\* ------------------------------------------------------------ ticker loop
MaxTickers == 3

\* a statement file: whether os.path.exists finds it, whether pd.read_csv
\* parses it (it raises otherwise), whether its cells are numbers (text cells
\* make a comparison with a number raise TypeError), and the table it holds
File(t) == [exists |-> TRUE, parses |-> TRUE, numeric |-> TRUE, table |-> t]

Loaded(in) == [inc |-> File(in.fin), bs |-> File(in.bs), cf |-> File(in.cf)]

EmptyTable == [columns |-> <<>>, index |-> {}, values |-> <<>>]

\* every row, every period
FavourableInput ==
    [fin |-> Table(AllDesc, INCOME_STATEMENT_ROW_MAP, Favourable),
     bs |-> Table(AllDesc, BALANCE_SHEET_ROW_MAP, Favourable),
     cf |-> Table(AllDesc, CASH_FLOW_ROW_MAP, Favourable)]

\* the balance sheet lists only the oldest period: one common period
OneCommonInput ==
    [FavourableInput EXCEPT !.bs = Table(<<1>>, BALANCE_SHEET_ROW_MAP, Favourable)]

\* the cash flow lists no period the balance sheet has: no common period
NoCommonInput ==
    [OneCommonInput EXCEPT !.cf = Table(<<MaxPeriod>>, CASH_FLOW_ROW_MAP, Favourable)]

StatementNames == {"inc", "bs", "cf"}

\* what the directory may hold for one ticker
TickerFiles ==
    {Loaded(in) : in \in {ReferenceInput, FavourableInput, OneCommonInput, NoCommonInput}}
    \cup {[Loaded(ReferenceInput) EXCEPT ![f].exists = FALSE] : f \in StatementNames}
    \cup {[Loaded(ReferenceInput) EXCEPT ![f].parses = FALSE] : f \in StatementNames}
    \cup {[Loaded(ReferenceInput) EXCEPT !.inc.exists = FALSE, !.bs.parses = FALSE]}
    \cup {[Loaded(ReferenceInput) EXCEPT !.cf.numeric = FALSE]}

InitBatch ==
    /\ \E n \in 0..MaxTickers :
        /\ tickers = [j \in 1..n |-> j]
        /\ \E d \in [1..n -> TickerFiles] : directory = d
    /\ processed = 0
    /\ results = <<>>
    /\ pc = "loop"
    /\ financials = EmptyTable
    /\ balance_sheet = EmptyTable
    /\ cash_flow = EmptyTable
    /\ Idle

\* compute_piotroski_fscore on the loaded files: with a cash flow of text cells
\* the first comparison of one with a number (criterion_2, `ocf > 0`) raises
scoring_call(f) ==
    LET common_periods == get_common_periods(f.inc.table, f.bs.table, f.cf.table)
    IN IF /\ ~f.cf.numeric
          /\ Len(common_periods) >= 2
          /\ HasKey(f.cf.table, OperatingCashFlow, common_periods[1])
       THEN [raised |-> "TypeError", ret |-> <<>>, evaluated |-> {1, 2}]
       ELSE compute_piotroski_fscore(f.inc.table, f.bs.table, f.cf.table)

\* one pass of the loop body, for ticker number processed + 1
ProcessTicker ==
    /\ pc = "loop"
    /\ processed < Len(tickers)
    /\ LET ticker == tickers[processed + 1]
           f == directory[processed + 1]
           common_periods ==
               Range(f.inc.table.columns) \cap Range(f.bs.table.columns)
                   \cap Range(f.cf.table.columns)
           out == scoring_call(f)
           fscore_data == out.ret[1]
       IN IF ~(f.inc.exists /\ f.bs.exists /\ f.cf.exists)
          THEN \* a file is missing: continue
               /\ processed' = processed + 1
               /\ UNCHANGED <<tables, results, pc, raised>>
          ELSE IF ~(f.inc.parses /\ f.bs.parses /\ f.cf.parses)
          THEN \* pd.read_csv raises outside any try: the script ends
               /\ pc' = "aborted"
               /\ raised' = "ParserError"
               /\ financials' = IF f.inc.parses THEN f.inc.table ELSE financials
               /\ balance_sheet' =
                      IF f.inc.parses /\ f.bs.parses THEN f.bs.table ELSE balance_sheet
               /\ UNCHANGED <<cash_flow, processed, results>>
          ELSE /\ financials' = f.inc.table
               /\ balance_sheet' = f.bs.table
               /\ cash_flow' = f.cf.table
               /\ processed' = processed + 1
               /\ UNCHANGED <<pc, raised>>
               /\ IF Cardinality(common_periods) < 2
                  THEN UNCHANGED results
                  ELSE IF out.raised # "none"
                  THEN \* except Exception: reported, nothing appended
                       UNCHANGED results
                  ELSE results' =
                           Append(results,
                                  [Ticker |-> ticker,
                                   FScore |-> fscore_data.Total_FScore,
                                   Current_Period |-> fscore_data.Period[1],
                                   Previous_Period |-> fscore_data.Period[2],
                                   Breakdown |-> fscore_data])
    /\ UNCHANGED <<tickers, directory, call, args, ret, evaluated>>

\* the loop is over: the results are put in a DataFrame and printed
Summarize ==
    /\ pc = "loop"
    /\ processed = Len(tickers)
    /\ pc' = "summary"
    /\ UNCHANGED <<tables, call, args, raised, ret, evaluated,
                   tickers, directory, processed, results>>

NextBatch ==
    \/ ProcessTicker
    \/ Summarize

\* the script run on a directory of statement files
SpecBatch == InitBatch /\ [][NextBatch]_vars

\* ------------------------------------------------- vocabulary of the claims
CriterionNames ==
    <<"criterion_1", "criterion_2", "criterion_3", "criterion_4", "criterion_5",
      "criterion_6", "criterion_7", "criterion_8", "criterion_9">>

\* the periods present in all three tables
Common ==
    Range(financials.columns) \cap Range(balance_sheet.columns)
        \cap Range(cash_flow.columns)

TableOf(label) ==
    IF label \in INCOME_STATEMENT_ROW_MAP THEN financials
    ELSE IF label \in BALANCE_SHEET_ROW_MAP THEN balance_sheet
    ELSE cash_flow

Present(cell) == HasKey(TableOf(cell[1]), cell[1], cell[2])

Cell(label, period) == TableOf(label).values[<<label, period>>]

\* some cell criterion k looks up for (curr, prev) is absent from its table
Missing(k, curr, prev) == \E cell \in Reads(k, curr, prev) : ~Present(cell)

Fallback(k) == IF k = 7 THEN 1 ELSE 0

Scored == call = "compute_piotroski_fscore" /\ raised = "none" /\ Len(ret) = 1

Called(k) == call = CriterionNames[k] /\ Len(ret) = 1

ArgCurr == args[1]

ArgPrev == args[Len(args)]

\* numerator and denominator of the ratio criterion k forms for a period
Num(k, p) ==
    CASE k \in {1, 3} -> Cell(NetIncome, p)
      [] k = 5 -> Cell(LongTermDebt, p)
      [] k = 6 -> Cell(CurrentAssets, p)
      [] k = 8 -> Cell(TotalRevenue, p) - Cell(CostOfRevenue, p)
      [] k = 9 -> Cell(TotalRevenue, p)

Den(k, p) ==
    CASE k \in {1, 3, 5, 9} -> Cell(TotalAssets, p)
      [] k = 6 -> Cell(CurrentLiabilities, p)
      [] k = 8 -> Cell(TotalRevenue, p)

\* n1/d1 > n2/d2 for non-zero d1, d2: cross-multiplied, the inequality turning
\* round when d1 and d2 differ in sign
QuotGt(n1, d1, n2, d2) ==
    \/ (d1 > 0) = (d2 > 0) /\ n1 * d2 > n2 * d1
    \/ (d1 > 0) # (d2 > 0) /\ n1 * d2 < n2 * d1

Bit(b) == IF b THEN 1 ELSE 0

\* ------------------------------------------------------------------ claims

\* C1: whenever the three tables share at least 2 periods,
\* compute_piotroski_fscore returns a breakdown holding each of criterion_1 ..
\* criterion_9 with a value in {0, 1}, Total_FScore is the sum of the nine and
\* lies in 0..9, whatever rows are present or absent.
C1_TotalIsSumOfNineBits ==
    (call = "compute_piotroski_fscore" /\ Cardinality(Common) >= 2) =>
        /\ Scored
        /\ DOMAIN ret[1] = Range(CriterionNames) \cup {"Total_FScore", "Period"}
        /\ \A k \in 1..9 : ret[1][CriterionNames[k]] \in {0, 1}
        /\ ret[1].Total_FScore =
              ret[1].criterion_1 + ret[1].criterion_2 + ret[1].criterion_3
            + ret[1].criterion_4 + ret[1].criterion_5 + ret[1].criterion_6
            + ret[1].criterion_7 + ret[1].criterion_8 + ret[1].criterion_9
        /\ ret[1].Total_FScore \in 0..9

\* a breakdown computed with some rows absent, scoring strictly between 0 and 9
C1_Witness ==
    /\ Scored
    /\ TotalRevenue \notin financials.index
    /\ LongTermDebt \notin balance_sheet.index
    /\ ret[1].Total_FScore \in 1..8

\* C2: with 0 or 1 common periods compute_piotroski_fscore raises ValueError,
\* returns no breakdown and evaluates no criterion.
C2_InsufficientPeriodsRaises ==
    (call = "compute_piotroski_fscore" /\ Cardinality(Common) < 2) =>
        /\ raised = "ValueError"
        /\ ret = <<>>
        /\ evaluated = {}

\* the call made on tables sharing exactly one period, each listing more
C2_Witness ==
    /\ call = "compute_piotroski_fscore"
    /\ Cardinality(Common) = 1
    /\ Len(financials.columns) >= 2
    /\ Len(balance_sheet.columns) >= 2
    /\ raised = "ValueError"

\* C3: the Period pair of a returned breakdown is the greatest and the second
\* greatest common period: both are common, current > previous, and no common
\* period lies above current or strictly between the two.
C3_PeriodPairIsTwoMostRecent ==
    Scored =>
        LET current == ret[1].Period[1]
            previous == ret[1].Period[2]
        IN /\ Len(ret[1].Period) = 2
           /\ current \in Common
           /\ previous \in Common
           /\ current > previous
           /\ \A q \in Common : q = current \/ q <= previous

\* the income statement lists its oldest period first, and the pair skips a
\* period that one table lacks
C3_Witness ==
    /\ Scored
    /\ financials.columns[1] < financials.columns[2]
    /\ ret[1].Period[1] - ret[1].Period[2] >= 2
    /\ \E q \in Range(financials.columns) :
          ret[1].Period[2] < q /\ q < ret[1].Period[1]

\* C4: get_common_periods returns exactly the periods present in all three
\* tables, each once, in strictly descending order; it returns the empty
\* sequence (and raises nothing) when nothing is shared; the tables are left
\* as they were.
C4_CommonPeriodsSortedDescending ==
    /\ [](call = "get_common_periods" =>
            /\ raised = "none"
            /\ Len(ret) = 1
            /\ Range(ret[1]) = Common
            /\ Len(ret[1]) = Cardinality(Common)
            /\ \A i, j \in 1..Len(ret[1]) : i < j => ret[1][i] > ret[1][j]
            /\ (Common = {} => ret[1] = <<>>))
    /\ [][Call_get_common_periods => tables' = tables]_vars

\* two or more common periods returned, from tables listing them in other orders
C4_Witness ==
    /\ call = "get_common_periods"
    /\ Len(ret[1]) >= 2
    /\ financials.columns # ret[1]
    /\ Len(balance_sheet.columns) > Len(ret[1])

\* C5: a criterion called on tables from which some cell it looks up is absent
\* (the row or the period column is missing) raises nothing and returns 0, or 1
\* for criterion 7; inside compute_piotroski_fscore such a criterion takes the
\* same value and the score is still returned.
C5_MissingDataFallback ==
    /\ \A k \in 1..9 :
          (Called(k) /\ Missing(k, ArgCurr, ArgPrev)) =>
              (raised = "none" /\ ret = <<Fallback(k)>>)
    /\ (call = "compute_piotroski_fscore" /\ Cardinality(Common) >= 2) =>
          /\ Scored
          /\ \A k \in 1..9 :
                Missing(k, ret[1].Period[1], ret[1].Period[2]) =>
                    ret[1][CriterionNames[k]] = Fallback(k)

\* a score returned although Shares Outstanding and Net Income are absent:
\* criterion 7 is 1, criteria 1, 3 and 4 are 0, and criterion 6 still scores
C5_Witness ==
    /\ Scored
    /\ SharesOutstanding \notin balance_sheet.index
    /\ NetIncome \notin financials.index
    /\ ret[1].criterion_7 = 1
    /\ ret[1].criterion_1 = 0
    /\ ret[1].criterion_3 = 0
    /\ ret[1].criterion_4 = 0
    /\ ret[1].criterion_6 = 1

\* C6: with every cell present, a zero denominator never raises in criteria 1,
\* 3, 5, 6, 8, 9: the ratio is taken as 0 and the criterion returns the 0/1 its
\* rule gives on it.  With Total Assets(current) = 0 criterion 1 returns 0 and
\* criterion 3 returns 1 exactly when ROA(previous) < 0.
C6_ZeroDenominatorIsZeroRatio ==
    /\ (Called(1) /\ ~Missing(1, ArgCurr, ArgPrev) /\ Den(1, ArgCurr) = 0) =>
          (raised = "none" /\ ret = <<0>>)
    /\ \A k \in {3, 6, 8, 9} :
          (Called(k) /\ ~Missing(k, ArgCurr, ArgPrev)) =>
              /\ Den(k, ArgCurr) = 0 =>
                    /\ raised = "none"
                    /\ ret = <<Bit(Den(k, ArgPrev) # 0
                                   /\ Num(k, ArgPrev) * Den(k, ArgPrev) < 0)>>
              /\ (Den(k, ArgCurr) # 0 /\ Den(k, ArgPrev) = 0) =>
                    /\ raised = "none"
                    /\ ret = <<Bit(Num(k, ArgCurr) * Den(k, ArgCurr) > 0)>>
    /\ (Called(5) /\ ~Missing(5, ArgCurr, ArgPrev)) =>
          /\ Den(5, ArgCurr) = 0 =>
                /\ raised = "none"
                /\ ret = <<Bit(Den(5, ArgPrev) # 0
                               /\ Num(5, ArgPrev) * Den(5, ArgPrev) > 0)>>
          /\ (Den(5, ArgCurr) # 0 /\ Den(5, ArgPrev) = 0) =>
                /\ raised = "none"
                /\ ret = <<Bit(Num(5, ArgCurr) * Den(5, ArgCurr) < 0)>>

\* criterion 3 called with Total Assets(current) = 0, a non-zero Net Income
\* (current) and a negative previous ROA: it returns 1
C6_Witness ==
    /\ Called(3)
    /\ ~Missing(3, ArgCurr, ArgPrev)
    /\ ArgCurr # ArgPrev
    /\ Cell(TotalAssets, ArgCurr) = 0
    /\ Cell(NetIncome, ArgCurr) # 0
    /\ Cell(NetIncome, ArgPrev) * Cell(TotalAssets, ArgPrev) < 0
    /\ ret = <<1>>

ReferenceTables ==
    /\ financials = ReferenceInput.fin
    /\ balance_sheet = ReferenceInput.bs
    /\ cash_flow = ReferenceInput.cf

\* C7 as stated: on the reference scenario (current = the latest period,
\* previous = the one before) the breakdown is 1 for every criterion but
\* criterion 7, which is 0, and the total is 8.
C7_ReferenceScoresEight ==
    (call = "compute_piotroski_fscore" /\ ReferenceTables) =>
        /\ Scored
        /\ \A k \in (1..9) \ {7} : ret[1][CriterionNames[k]] = 1
        /\ ret[1].criterion_7 = 0
        /\ ret[1].Total_FScore = 8

\* C7, amended: on the reference scenario every one of the nine criteria is 1,
\* criterion 7 included (Shares Outstanding fell from 210 to 200, and
\* 200 <= 210), the total is 9 and the Period pair is (latest, one before).
C7_ReferenceScoresNine ==
    (call = "compute_piotroski_fscore" /\ ReferenceTables) =>
        /\ Scored
        /\ \A k \in 1..9 : ret[1][CriterionNames[k]] = 1
        /\ ret[1].Total_FScore = 9
        /\ ret[1].Period = <<MaxPeriod, MaxPeriod - 1>>

\* the reference scenario scored, its share count read as 200 now and 210 before
C7_Witness ==
    /\ Scored
    /\ ReferenceTables
    /\ Cell(SharesOutstanding, ret[1].Period[1]) = 200
    /\ Cell(SharesOutstanding, ret[1].Period[2]) = 210

\* every cell criterion k looks up is present and every denominator is non-zero
WellDefined(k) ==
    /\ ~Missing(k, ArgCurr, ArgPrev)
    /\ k = 1 => Den(1, ArgCurr) # 0
    /\ k \in {3, 5, 6, 8, 9} => (Den(k, ArgCurr) # 0 /\ Den(k, ArgPrev) # 0)

\* the rule of criterion k on the cells of (ArgCurr, ArgPrev)
Rule(k) ==
    CASE k = 1 -> Num(1, ArgCurr) * Den(1, ArgCurr) > 0
      [] k = 2 -> Cell(OperatingCashFlow, ArgCurr) > 0
      [] k = 4 -> Cell(OperatingCashFlow, ArgCurr) > Cell(NetIncome, ArgCurr)
      [] k = 5 -> QuotGt(Num(5, ArgPrev), Den(5, ArgPrev), Num(5, ArgCurr), Den(5, ArgCurr))
      [] k = 7 -> Cell(SharesOutstanding, ArgCurr) <= Cell(SharesOutstanding, ArgPrev)
      [] k \in {3, 6, 8, 9} ->
            QuotGt(Num(k, ArgCurr), Den(k, ArgCurr), Num(k, ArgPrev), Den(k, ArgPrev))

\* C9: with every cell present and every denominator non-zero, each criterion
\* returns 1 exactly when its rule holds (strict for 1-6, 8, 9; `<=` for 7);
\* so when the current and the previous ratio (or share count) are equal,
\* criteria 3, 5, 6, 8, 9 return 0 and criterion 7 returns 1.
C9_CriterionIsItsRule ==
    \A k \in 1..9 :
        (Called(k) /\ WellDefined(k)) =>
            /\ raised = "none"
            /\ ret = <<Bit(Rule(k))>>
            /\ (k \in {3, 5, 6, 8, 9}
                /\ Num(k, ArgCurr) * Den(k, ArgPrev) = Num(k, ArgPrev) * Den(k, ArgCurr))
                  => ret = <<0>>
            /\ (k = 7 /\ Cell(SharesOutstanding, ArgCurr) = Cell(SharesOutstanding, ArgPrev))
                  => ret = <<1>>

\* criterion 5 called on two periods whose leverage is the same non-zero ratio
\* formed from different cells (1/1 against 2/2, say): it returns 0
C9_Witness ==
    /\ Called(5)
    /\ WellDefined(5)
    /\ ArgCurr # ArgPrev
    /\ Cell(LongTermDebt, ArgCurr) # Cell(LongTermDebt, ArgPrev)
    /\ Cell(LongTermDebt, ArgCurr) * Cell(TotalAssets, ArgPrev)
         = Cell(LongTermDebt, ArgPrev) * Cell(TotalAssets, ArgCurr)
    /\ ret = <<0>>

\* C10: criterion_5 called with Long Term Debt and Total Assets present for
\* both periods, Total Assets(current) = 0, Total Assets(previous) # 0 and a
\* positive previous leverage returns 1; called when Total Assets(current) is
\* absent (no such row or no such column) it returns 0.
C10_ZeroAssetsFavourableAbsentNot ==
    Called(5) =>
        /\ (/\ ~Missing(5, ArgCurr, ArgPrev)
            /\ Cell(TotalAssets, ArgCurr) = 0
            /\ Cell(TotalAssets, ArgPrev) # 0
            /\ Cell(LongTermDebt, ArgPrev) * Cell(TotalAssets, ArgPrev) > 0)
              => ret = <<1>>
        /\ ~Present(<<TotalAssets, ArgCurr>>) => ret = <<0>>

\* criterion_5 returning 1 on Total Assets(current) = 0 with debt outstanding
C10_Witness ==
    /\ Called(5)
    /\ ~Missing(5, ArgCurr, ArgPrev)
    /\ Cell(TotalAssets, ArgCurr) = 0
    /\ Cell(LongTermDebt, ArgCurr) > 0
    /\ Cell(TotalAssets, ArgPrev) > 0
    /\ Cell(LongTermDebt, ArgPrev) > 0
    /\ ret = <<1>>

\* ticker number j has all three files, at least 2 common periods, and a
\* scoring call that does not raise
HasAllFiles(j) ==
    directory[j].inc.exists /\ directory[j].bs.exists /\ directory[j].cf.exists

CommonOf(j) ==
    Range(directory[j].inc.table.columns) \cap Range(directory[j].bs.table.columns)
        \cap Range(directory[j].cf.table.columns)

ScoringRaises(j) ==
    /\ ~directory[j].cf.numeric
    /\ OperatingCashFlow \in directory[j].cf.table.index

Scorable(j) == HasAllFiles(j) /\ Cardinality(CommonOf(j)) >= 2 /\ ~ScoringRaises(j)

ResultTickers == [k \in 1..Len(results) |-> results[k].Ticker]

\* the results list holds, in loop order and once each, exactly the scorable
\* tickers among the first `processed`
ResultsAreTheScorable ==
    LET IsScorable(t) == t <= processed /\ Scorable(t)
    IN ResultTickers = SelectSeq(tickers, IsScorable)

\* C11: the ticker loop isolates failures per ticker: at every point the
\* results list holds one entry for each ticker gone through that had all three
\* files, at least 2 common periods and a scoring call that did not raise, and
\* none for any other; no ticker stops the loop, which goes through every
\* ticker and reaches the summary (the script never ends on an exception).
C11_BatchIsolatesFailures ==
    pc # "import" =>
        /\ pc \in {"loop", "summary"}
        /\ pc = "summary" => processed = Len(tickers)
        /\ ResultsAreTheScorable

====
